---- MODULE Spec2Model ----
(***************************************************************************)
(* State-machine model of src/app.py, a Flask + SQLAlchemy e-commerce      *)
(* backend: product catalog, session cart, checkout and order history.     *)
(*                                                                         *)
(* Persisted state is the four tables of the SQLite database               *)
(* (products, users, orders, order_items).  Each client session carries    *)
(* its own session state (user_id and cart).  Every HTTP handler is one    *)
(* action, except checkout, whose database reads, flush, writes, commit    *)
(* and response are separate steps, because requests of different          *)
(* sessions run concurrently and interleave between SQL statements.        *)
(*                                                                         *)
(* Modelling conventions                                                   *)
(*  - Money is counted in thousandths of the currency unit, so that        *)
(*    round(x, 2) is a real rounding (to a multiple of 10).  Prices are    *)
(*    even numbers of thousandths, so no rounding tie arises, and float    *)
(*    arithmetic is taken to be exact.                                     *)
(*  - A session issues one request at a time; requests of different        *)
(*    sessions interleave.                                                 *)
(*  - product_id inputs are JSON integers 1..9, so a cart key is the       *)
(*    decimal string of the id.                                            *)
(*  - SQLite allows one write transaction at a time: dblock names the      *)
(*    session whose checkout holds it from its first INSERT to its         *)
(*    commit or rollback.  A writer that finds the lock taken waits.       *)
(***************************************************************************)
EXTENDS Integers, Sequences, FiniteSets, TLC

\* ---------------------------------------------------------------- bounds
MaxOrders == 1        \* a checkout starts while fewer orders than this exist
MaxCartQty == 2       \* a cart quantity stays <= this
MinCartQty == 1       \* a cart quantity stays >= -MinCartQty

Sessions == {"s1", "s2"}
Usernames == {"alice", "bob"}
Emails == {"a@x", "b@x"}
Passwords == {"pw"}
LoginPasswords == {"pw", "bad"}
Addresses == {"", "123 Main St"}
Prices == {10, 14}
StockInputs == {-1, 1, 2}
AddQtys == {-1, 0, 1, 2}
UpdateQtys == {0, 1, 2}
Pids == {1, 2}        \* product ids in use
Names == {"widget", "gadget"}
NoUser == 0           \* 'user_id' not in session
NoSession == "none"

\* ------------------------------------------------- conversions and helpers
\* str(product_id) and int(product_id) for ids 1..9
Digits == <<"1", "2", "3", "4", "5", "6", "7", "8", "9">>
StrOf(n) == Digits[n]
IntOf(k) == CHOOSE n \in 1..9 : Digits[n] = k
Keys == {StrOf(n) : n \in Pids}

Abs(x) == IF x < 0 THEN -x ELSE x

\* round(total, 2) on thousandths: nearest multiple of 10, ties to even
Round2(x) ==
    LET a == Abs(x)
        lo == (a \div 10) * 10
        r == a % 10
        m == IF r < 5 THEN lo
             ELSE IF r > 5 THEN lo + 10
             ELSE IF (lo \div 10) % 2 = 0 THEN lo ELSE lo + 10
    IN IF x < 0 THEN -m ELSE m

\* cart_items.items(): the session cookie is serialised with sorted keys,
\* so a request iterates its cart in key order
RECURSIVE SortedKeys(_)
SortedKeys(S) ==
    IF S = {} THEN <<>>
    ELSE LET k == CHOOSE x \in S : \A y \in S : IntOf(x) <= IntOf(y)
         IN <<k>> \o SortedKeys(S \ {k})
CartOrder(cart) == SortedKeys(DOMAIN cart)

RECURSIVE SumSeq(_)
SumSeq(s) == IF s = <<>> THEN 0 ELSE Head(s) + SumSeq(Tail(s))

\* finite maps (dict, table rows by id)
EmptyMap == <<>>
MapPut(f, k, v) == (k :> v) @@ f
RECURSIVE Restrict(_, _)
Restrict(f, D) ==
    IF D = {} THEN EmptyMap
    ELSE LET x == CHOOSE y \in D : TRUE
         IN (x :> f[x]) @@ Restrict(f, D \ {x})
MapDel(f, k) == Restrict(f, DOMAIN f \ {k})

\* ------------------------------------------------------------------ state
VARIABLES
    products,     \* table products: id -> [name, price, stock]
    users,        \* table users: sequence of [username, email, password], id = index
    orders,       \* table orders: sequence of rows, id = index
    order_items,  \* table order_items: sequence of rows
    sess,         \* per session: [user_id, cart]
    co,           \* per session: the checkout request in flight
    dblock,       \* session holding SQLite's write lock, or NoSession
    resp          \* the last response sent: [op, sid, status, body]

vars == <<products, users, orders, order_items, sess, co, dblock, resp>>

Idle == [pc |-> "idle", i |-> 0, cache |-> EmptyMap, dirty |-> {},
         total |-> 0, addr |-> "", oid |-> 0, items |-> <<>>]

\* body is <<>> for every response whose JSON the model does not look at
Response(op, s, status) ==
    [op |-> op, sid |-> s, status |-> status, body |-> <<>>]

\* The catalog the application starts on: init_db keeps the products of an
\* existing database (line 551); here two products with stocks 2 and 1.
InitProducts ==
    [p \in Pids |->
        [name |-> "widget", price |-> 10, stock |-> IF p = 1 THEN 2 ELSE 1]]

Init ==
    /\ products = InitProducts
    /\ users = <<>>
    /\ orders = <<>>
    /\ order_items = <<>>
    /\ sess = [s \in Sessions |-> [user_id |-> NoUser, cart |-> EmptyMap]]
    /\ co = [s \in Sessions |-> Idle]
    /\ dblock = NoSession
    /\ resp = Response("none", NoSession, 0)

\* A session sends its next request only when its last one was answered.
Ready(s) == co[s].pc = "idle"
\* A write statement waits while another connection holds the write lock.
CanWrite == dblock = NoSession

db == <<products, users, orders, order_items>>
\* ------------------------------------------------------- authentication
\* POST /register
Register(username, email, password) ==
    /\ \/ /\ \E i \in DOMAIN users : users[i].username = username
          /\ resp' = Response("register", NoSession, 400)
          /\ UNCHANGED users
       \/ /\ \A i \in DOMAIN users : users[i].username # username
          /\ \E i \in DOMAIN users : users[i].email = email
          /\ resp' = Response("register", NoSession, 400)
          /\ UNCHANGED users
       \/ /\ \A i \in DOMAIN users : users[i].username # username
          /\ \A i \in DOMAIN users : users[i].email # email
          /\ CanWrite
          /\ users' = Append(users, [username |-> username, email |-> email,
                                     password |-> password])
          /\ resp' = Response("register", NoSession, 201)
    /\ UNCHANGED <<products, orders, order_items, sess, co, dblock>>

\* POST /login
Login(s, username, password) ==
    /\ Ready(s)
    /\ LET found == {i \in DOMAIN users : /\ users[i].username = username
                                          /\ users[i].password = password}
       IN \/ /\ found # {}
             /\ \E i \in found :
                   sess' = [sess EXCEPT ![s].user_id = i]
             /\ resp' = Response("login", s, 200)
          \/ /\ found = {}
             /\ resp' = Response("login", s, 401)
             /\ UNCHANGED sess
    /\ UNCHANGED <<db, co, dblock>>

\* GET /logout: session.clear() drops the identity and the cart
Logout(s) ==
    /\ Ready(s)
    /\ sess' = [sess EXCEPT ![s] = [user_id |-> NoUser, cart |-> EmptyMap]]
    /\ resp' = Response("logout", s, 302)
    /\ UNCHANGED <<db, co, dblock>>

\* ---------------------------------------------------------------- catalog
\* SQLite gives a new row the id max(id) + 1
NextProductId == IF DOMAIN products = {} THEN 1
                 ELSE (CHOOSE m \in DOMAIN products :
                          \A x \in DOMAIN products : x <= m) + 1

\* POST /api/products; complete = name, price and category are all supplied
CreateProduct(complete, name, price, stock) ==
    /\ \/ /\ ~complete
          /\ resp' = Response("create_product", NoSession, 400)
          /\ UNCHANGED products
       \/ /\ complete
          /\ CanWrite
          /\ NextProductId \in Pids
          /\ products' = MapPut(products, NextProductId,
                                [name |-> name, price |-> price,
                                 stock |-> stock])
          /\ resp' = Response("create_product", NoSession, 201)
    /\ UNCHANGED <<users, orders, order_items, sess, co, dblock>>

\* an optional request field: <<>> when not supplied, <<v>> when supplied
Opt(S) == {<<>>} \cup {<<v>> : v \in S}
Get(opt, default) == IF opt = <<>> THEN default ELSE opt[1]

\* GET /api/products/<id>: to_dict of the row, or 404
GetProduct(pid) ==
    /\ \/ /\ pid \notin DOMAIN products
          /\ resp' = Response("get_product", NoSession, 404)
       \/ /\ pid \in DOMAIN products
          /\ resp' = [Response("get_product", NoSession, 200)
                        EXCEPT !.body = products[pid]]
    /\ UNCHANGED <<db, sess, co, dblock>>

\* PUT /api/products/<id>: data.get(field, product.field) for every field
UpdateStockDefaultZero(pid, name, price, stock) ==
    /\ pid \in DOMAIN products
    /\ CanWrite
    /\ products' = [products EXCEPT
                      ![pid] = [name |-> Get(name, products[pid].name),
                                price |-> Get(price, products[pid].price),
                                stock |-> Get(stock, 0)]]
    /\ resp' = Response("update_product", NoSession, 200)
    /\ UNCHANGED <<users, orders, order_items, sess, co, dblock>>
UpdateProduct(pid, name, price, stock) ==
    /\ \/ /\ pid \notin DOMAIN products
          /\ resp' = Response("update_product", NoSession, 404)
          /\ UNCHANGED products
       \/ /\ pid \in DOMAIN products
          /\ CanWrite
          /\ products' = [products EXCEPT
                            ![pid] = [name |-> Get(name, products[pid].name),
                                      price |-> Get(price, products[pid].price),
                                      stock |-> Get(stock, products[pid].stock)]]
          /\ resp' = Response("update_product", NoSession, 200)
    /\ UNCHANGED <<users, orders, order_items, sess, co, dblock>>

\* the order items the backref Product.order_items loads, line 104
Referencing(pid) == {n \in DOMAIN order_items : order_items[n].product_id = pid}

\* DELETE /api/products/<id>.  The relationship of line 104 has no delete
\* cascade, so the flush of the delete sets product_id of every order item
\* of the product to NULL; the column is NOT NULL (line 100), the UPDATE
\* raises IntegrityError, the request ends with 500 and is rolled back.
DeleteNullifying(pid) ==
    /\ pid \in DOMAIN products
    /\ CanWrite
    /\ products' = MapDel(products, pid)
    /\ order_items' = [n \in DOMAIN order_items |->
                         IF n \in Referencing(pid)
                         THEN [order_items[n] EXCEPT !.product_id = 0]
                         ELSE order_items[n]]
    /\ resp' = Response("delete_product", NoSession, 200)
    /\ UNCHANGED <<users, orders, sess, co, dblock>>
DeleteProduct(pid) ==
    /\ \/ /\ pid \notin DOMAIN products
          /\ resp' = Response("delete_product", NoSession, 404)
          /\ UNCHANGED products
       \/ /\ pid \in DOMAIN products
          /\ CanWrite
          /\ Referencing(pid) # {}
          /\ resp' = Response("delete_product", NoSession, 500)
          /\ UNCHANGED products
       \/ /\ pid \in DOMAIN products
          /\ CanWrite
          /\ Referencing(pid) = {}
          /\ products' = MapDel(products, pid)
          /\ resp' = Response("delete_product", NoSession, 200)
    /\ UNCHANGED <<users, orders, order_items, sess, co, dblock>>

\* ------------------------------------------------------------------- cart
InCartRange(q) == -MinCartQty <= q /\ q <= MaxCartQty

\* the stock test of POST /api/cart and PUT /api/cart/update
AnyQuantity(quantity, stock) == FALSE
ExceedsStock(quantity, stock) == quantity > stock

\* cart_items[product_id] += quantity, or = quantity for a new key
SumQuantity(cart, k, quantity) == MapPut(cart, k, cart[k] + quantity)
ReplaceQuantity(cart, k, quantity) == MapPut(cart, k, quantity)
OverwriteQuantity(cart, k, quantity) == MapPut(cart, k, quantity)
AddToCart(cart, k, quantity) ==
    IF k \in DOMAIN cart THEN MapPut(cart, k, cart[k] + quantity)
    ELSE MapPut(cart, k, quantity)

\* POST /api/cart
CartAdd(s, pid, quantity) ==
    /\ Ready(s)
    /\ LET k == StrOf(pid) IN
       \/ /\ IntOf(k) \notin DOMAIN products
          /\ resp' = Response("cart_add", s, 404)
          /\ UNCHANGED sess
       \/ /\ IntOf(k) \in DOMAIN products
          /\ ExceedsStock(quantity, products[IntOf(k)].stock)
          /\ resp' = Response("cart_add", s, 400)
          /\ UNCHANGED sess
       \/ /\ IntOf(k) \in DOMAIN products
          /\ ~ExceedsStock(quantity, products[IntOf(k)].stock)
          /\ InCartRange(AddToCart(sess[s].cart, k, quantity)[k])
          /\ sess' = [sess EXCEPT ![s].cart = AddToCart(@, k, quantity)]
          /\ resp' = Response("cart_add", s, 200)
    /\ UNCHANGED <<db, co, dblock>>

\* DELETE /api/cart?product_id=
RemoveAbsentFails(s, k) ==
    /\ Ready(s)
    /\ \/ /\ k \in DOMAIN sess[s].cart
          /\ sess' = [sess EXCEPT ![s].cart = MapDel(@, k)]
          /\ resp' = Response("cart_remove", s, 200)
       \/ /\ k \notin DOMAIN sess[s].cart
          /\ UNCHANGED sess
          /\ resp' = Response("cart_remove", s, 404)
    /\ UNCHANGED <<db, co, dblock>>
CartRemove(s, k) ==
    /\ Ready(s)
    /\ sess' = [sess EXCEPT ![s].cart = MapDel(@, k)]
    /\ resp' = Response("cart_remove", s, 200)
    /\ UNCHANGED <<db, co, dblock>>

\* PUT /api/cart/update
CartUpdate(s, pid, quantity) ==
    /\ Ready(s)
    /\ LET k == StrOf(pid) IN
       \/ /\ k \notin DOMAIN sess[s].cart
          /\ resp' = Response("cart_update", s, 404)
          /\ UNCHANGED sess
       \/ /\ k \in DOMAIN sess[s].cart
          /\ quantity <= 0
          /\ sess' = [sess EXCEPT ![s].cart = MapDel(@, k)]
          /\ resp' = Response("cart_update", s, 200)
       \/ /\ k \in DOMAIN sess[s].cart
          /\ quantity > 0
          /\ IntOf(k) \notin DOMAIN products
          /\ resp' = Response("cart_update", s, 404)
          /\ UNCHANGED sess
       \/ /\ k \in DOMAIN sess[s].cart
          /\ quantity > 0
          /\ IntOf(k) \in DOMAIN products
          /\ ExceedsStock(quantity, products[IntOf(k)].stock)
          /\ resp' = Response("cart_update", s, 400)
          /\ UNCHANGED sess
       \/ /\ k \in DOMAIN sess[s].cart
          /\ quantity > 0
          /\ IntOf(k) \in DOMAIN products
          /\ ~ExceedsStock(quantity, products[IntOf(k)].stock)
          /\ sess' = [sess EXCEPT ![s].cart = ReplaceQuantity(@, k, quantity)]
          /\ resp' = Response("cart_update", s, 200)
    /\ UNCHANGED <<db, co, dblock>>

\* POST /api/cart/clear
CartClear(s) ==
    /\ Ready(s)
    /\ sess' = [sess EXCEPT ![s].cart = EmptyMap]
    /\ resp' = Response("cart_clear", s, 200)
    /\ UNCHANGED <<db, co, dblock>>

\* --------------------------------------------------------------- checkout
\* The request of session s iterates the cart it arrived with.
Order(s) == CartOrder(sess[s].cart)
KeyAt(s) == Order(s)[co[s].i]
LastPid(s) == IntOf(Order(s)[Len(Order(s))])

\* SELECT of one product row: <<row>>, or <<>> for None
Fresh(pid) == IF pid \in DOMAIN products THEN <<products[pid]>> ELSE <<>>

\* Product.query.get(pid) in the request of session s.  The SQLAlchemy
\* session keeps loaded objects in a weak identity map: an object the
\* request changed (dirty) or still references (held) is returned as
\* loaded, without SQL; an object loaded earlier and no longer referenced
\* is returned as loaded if it was not collected yet and is re-read if it
\* was; any other id is read from the database.
QueryGet(s, pid, held) ==
    LET c == co[s] IN
    IF pid \in DOMAIN c.cache /\ (pid \in c.dirty \/ pid \in held)
    THEN {<<c.cache[pid]>>}
    ELSE IF pid \in DOMAIN c.cache
    THEN {<<c.cache[pid]>>, Fresh(pid)}
    ELSE {Fresh(pid)}

\* the identity map after Product.query.get(pid) returned r
Cached(cache, pid, r) == IF r = <<>> THEN MapDel(cache, pid)
                         ELSE MapPut(cache, pid, r[1])

\* login_required: 'user_id' in session
NoLoginCheck(s) == TRUE
LoggedIn(s) == sess[s].user_id # NoUser

\* login_required, and lines 384-394: no database access
CheckoutStart(s, shipping_address) ==
    /\ Ready(s)
    /\ \/ /\ ~LoggedIn(s)
          /\ resp' = Response("checkout", s, 302)
          /\ UNCHANGED co
       \/ /\ LoggedIn(s)
          /\ DOMAIN sess[s].cart = {}
          /\ resp' = Response("checkout", s, 400)
          /\ UNCHANGED co
       \/ /\ LoggedIn(s)
          /\ DOMAIN sess[s].cart # {}
          /\ shipping_address = ""
          /\ resp' = Response("checkout", s, 400)
          /\ UNCHANGED co
       \/ /\ LoggedIn(s)
          /\ DOMAIN sess[s].cart # {}
          /\ shipping_address # ""
          /\ Len(orders) < MaxOrders
          /\ co' = [co EXCEPT ![s] = [Idle EXCEPT !.pc = "check", !.i = 1,
                                                  !.addr = shipping_address]]
          /\ UNCHANGED resp
    /\ UNCHANGED <<db, sess, dblock>>

\* one iteration of the stock check, lines 397-400
MissingOnly(quantity, r) == r = <<>>
Insufficient(quantity, r) ==
    IF r = <<>> THEN TRUE ELSE quantity > r[1].stock

CheckoutCheck(s) ==
    /\ co[s].pc = "check"
    /\ LET k == KeyAt(s)
           quantity == sess[s].cart[k]
       IN \E r \in QueryGet(s, IntOf(k), {}) :
          \/ /\ Insufficient(quantity, r)
             /\ co' = [co EXCEPT ![s] = Idle]
             /\ resp' = Response("checkout", s, 400)
          \/ /\ ~Insufficient(quantity, r)
             /\ co' = [co EXCEPT
                   ![s].cache = Cached(@, IntOf(k), r),
                   ![s].i = IF @ = Len(Order(s)) THEN 1 ELSE @ + 1,
                   ![s].pc = IF co[s].i = Len(Order(s)) THEN "total" ELSE @]
             /\ UNCHANGED resp
    /\ UNCHANGED <<db, sess, dblock>>

\* one iteration of calculate_cart_total, lines 139-143, and after the last
\* one the rounding of line 143; checkout's own variable product still
\* references the object the stock check loaded last
NoRounding(x) == x
Rounded(x) == Round2(x)

CheckoutTotal(s) ==
    /\ co[s].pc = "total"
    /\ LET k == KeyAt(s)
           quantity == sess[s].cart[k]
           last == co[s].i = Len(Order(s))
       IN \E r \in QueryGet(s, IntOf(k), {LastPid(s)}) :
          LET sum == IF r = <<>> THEN co[s].total
                     ELSE co[s].total + r[1].price * quantity
          IN co' = [co EXCEPT
                   ![s].cache = Cached(@, IntOf(k), r),
                   ![s].total = IF last THEN Rounded(sum) ELSE sum,
                   ![s].i = IF last THEN 1 ELSE @ + 1,
                   ![s].pc = IF last THEN "flush" ELSE @]
    /\ UNCHANGED <<db, sess, dblock, resp>>

\* db.session.add(order); db.session.flush(): the INSERT opens the write
\* transaction and takes SQLite's write lock
CheckoutFlush(s) ==
    /\ co[s].pc = "flush"
    /\ CanWrite
    /\ dblock' = s
    /\ co' = [co EXCEPT ![s].pc = "write", ![s].oid = Len(orders) + 1]
    /\ UNCHANGED <<db, sess, resp>>

\* the row checkout adds for one cart entry, lines 420-425
OrderItemOf(pid, quantity, row) ==
    [product_id |-> pid, quantity |-> quantity, price |-> row.price]

\* product.stock -= quantity, line 427
Decrement(stock, quantity) == stock - quantity

WriteFails(pid, quantity, r) ==
    IF r = <<>> THEN TRUE
    ELSE IF pid \in DOMAIN products THEN FALSE
    ELSE Decrement(r[1].stock, quantity) # r[1].stock

\* one iteration of the write loop, lines 417-428.  A None product raises
\* AttributeError; an UPDATE of a row that was deleted raises
\* StaleDataError; either ends the request with 500 and the transaction is
\* rolled back when the request context is torn down.
CheckoutWrite(s) ==
    /\ co[s].pc = "write"
    /\ LET k == KeyAt(s)
           pid == IntOf(k)
           quantity == sess[s].cart[k]
           last == co[s].i = Len(Order(s))
           held == IF co[s].i = 1 THEN {LastPid(s)} ELSE {}
       IN \E r \in QueryGet(s, pid, held) :
          \/ /\ WriteFails(pid, quantity, r)
             /\ co' = [co EXCEPT ![s] = Idle]
             /\ dblock' = NoSession
             /\ resp' = Response("checkout", s, 500)
          \/ /\ ~WriteFails(pid, quantity, r)
             /\ LET new == Decrement(r[1].stock, quantity) IN
                co' = [co EXCEPT
                   ![s].cache = MapPut(@, pid, [r[1] EXCEPT !.stock = new]),
                   ![s].dirty = IF new # r[1].stock THEN @ \cup {pid} ELSE @,
                   ![s].items = Append(@, OrderItemOf(pid, quantity, r[1])),
                   ![s].i = IF last THEN 1 ELSE @ + 1,
                   ![s].pc = IF last THEN "commit" ELSE @]
             /\ UNCHANGED <<dblock, resp>>
    /\ UNCHANGED <<db, sess>>

\* the rows one transaction writes at its commit
SkipStockWrite(s) == products
OrderRow(s) ==
    [user_id |-> sess[s].user_id, total_amount |-> co[s].total,
     status |-> "completed", shipping_address |-> co[s].addr]
ItemRows(s, order_id) ==
    [n \in 1..Len(co[s].items) |->
        [order_id |-> order_id, product_id |-> co[s].items[n].product_id,
         quantity |-> co[s].items[n].quantity, price |-> co[s].items[n].price]]
StockWritten(s) ==
    [p \in DOMAIN products |->
        IF p \in co[s].dirty
        THEN [products[p] EXCEPT !.stock = co[s].cache[p].stock]
        ELSE products[p]]

\* db.session.commit(), line 430
CheckoutCommit(s) ==
    /\ co[s].pc = "commit"
    /\ dblock = s
    /\ orders' = Append(orders, OrderRow(s))
    /\ order_items' = order_items \o ItemRows(s, co[s].oid)
    /\ products' = StockWritten(s)
    /\ dblock' = NoSession
    /\ co' = [co EXCEPT ![s].pc = "respond"]
    /\ UNCHANGED <<users, sess, resp>>

\* lines 433-445: the cart is cleared and the response is built from the
\* committed rows; oi.product.name raises when the product row is gone.
\* The cleared cart of a request that ends in an exception is saved unless
\* the application propagates exceptions (debug mode).
KeepCart(cart) == cart
ClearedCart(cart) == EmptyMap

CheckoutRespond(s) ==
    /\ co[s].pc = "respond"
    /\ co' = [co EXCEPT ![s] = Idle]
    /\ \/ /\ \A n \in DOMAIN co[s].items :
                co[s].items[n].product_id \in DOMAIN products
          /\ sess' = [sess EXCEPT ![s].cart = ClearedCart(@)]
          /\ resp' = Response("checkout", s, 201)
       \/ /\ \E n \in DOMAIN co[s].items :
                co[s].items[n].product_id \notin DOMAIN products
          /\ \/ sess' = [sess EXCEPT ![s].cart = ClearedCart(@)]
             \/ UNCHANGED sess
          /\ resp' = Response("checkout", s, 500)
    /\ UNCHANGED <<db, dblock>>

\* ----------------------------------------------------------------- orders
\* GET /api/orders/<id>
AnyOwner(order, s) == FALSE
NotOwner(order, s) == order.user_id # sess[s].user_id

GetOrderDetail(s, order_id) ==
    /\ Ready(s)
    /\ \/ /\ ~LoggedIn(s)
          /\ resp' = Response("order_detail", s, 302)
       \/ /\ LoggedIn(s)
          /\ order_id \notin DOMAIN orders
          /\ resp' = Response("order_detail", s, 404)
       \/ /\ LoggedIn(s)
          /\ order_id \in DOMAIN orders
          /\ NotOwner(orders[order_id], s)
          /\ resp' = Response("order_detail", s, 403)
       \/ /\ LoggedIn(s)
          /\ order_id \in DOMAIN orders
          /\ ~NotOwner(orders[order_id], s)
          /\ \E n \in DOMAIN order_items :
                /\ order_items[n].order_id = order_id
                /\ order_items[n].product_id \notin DOMAIN products
          /\ resp' = Response("order_detail", s, 500)
       \/ /\ LoggedIn(s)
          /\ order_id \in DOMAIN orders
          /\ ~NotOwner(orders[order_id], s)
          /\ \A n \in DOMAIN order_items :
                order_items[n].order_id = order_id
                    => order_items[n].product_id \in DOMAIN products
          /\ resp' = Response("order_detail", s, 200)
    /\ UNCHANGED <<db, sess, co, dblock>>

\* -------------------------------------------------------------- cart view
\* GET /api/cart, lines 279-300.  The listing loop reads every product of
\* the cart and lists the entries whose product exists.
Present(cart) ==
    SelectSeq(CartOrder(cart), LAMBDA k : IntOf(k) \in DOMAIN products)

ViewItems(cart) ==
    [n \in 1..Len(Present(cart)) |->
        [product_id |-> Present(cart)[n],
         quantity |-> cart[Present(cart)[n]],
         price |-> products[IntOf(Present(cart)[n])].price]]

CartViewList(s) ==
    /\ Ready(s)
    /\ co' = [co EXCEPT ![s] =
                [Idle EXCEPT
                   !.pc = "view",
                   !.items = ViewItems(sess[s].cart),
                   !.cache = Restrict(products,
                                {IntOf(k) : k \in DOMAIN sess[s].cart}
                                    \cap DOMAIN products)]]
    /\ UNCHANGED <<db, sess, dblock, resp>>

\* the product the variable product of cart() still references after the
\* listing loop: the one of the last cart entry, if it was found
ViewHeld(s) ==
    IF DOMAIN sess[s].cart = {} THEN {}
    ELSE {LastPid(s)} \cap DOMAIN co[s].cache

\* calculate_cart_total(cart_items), line 294, and the response
ViewTotal(cart, reads) ==
    Rounded(SumSeq([n \in 1..Len(CartOrder(cart)) |->
        LET k == CartOrder(cart)[n]
        IN IF reads[k] = <<>> THEN 0 ELSE reads[k][1].price * cart[k]]))

CartViewTotal(s) ==
    /\ co[s].pc = "view"
    /\ LET cart == sess[s].cart
           rows == UNION {QueryGet(s, IntOf(k), ViewHeld(s)) : k \in DOMAIN cart}
       IN \E reads \in [DOMAIN cart -> rows] :
             /\ \A k \in DOMAIN cart :
                   reads[k] \in QueryGet(s, IntOf(k), ViewHeld(s))
             /\ resp' = [Response("cart_view", s, 200) EXCEPT
                           !.body = [items |-> co[s].items,
                                     total |-> ViewTotal(cart, reads),
                                     item_count |-> Cardinality(DOMAIN cart)]]
    /\ co' = [co EXCEPT ![s] = Idle]
    /\ UNCHANGED <<db, sess, dblock>>

\* --------------------------------------------------------- specifications
\* The requests clients may send, by the values their inputs are drawn from.
CatalogOps(names, prices, stocks) ==
    \/ \E c \in BOOLEAN, n \in names, p \in prices, st \in stocks :
          CreateProduct(c, n, p, st)
    \/ \E pid \in Pids, n \in Opt(names), p \in Opt(prices),
          st \in Opt(stocks) : UpdateProduct(pid, n, p, st)
    \/ \E pid \in Pids : DeleteProduct(pid)

CartOps(S, adds, updates) ==
    \/ \E s \in S, pid \in Pids, q \in adds : CartAdd(s, pid, q)
    \/ \E s \in S, k \in Keys : CartRemove(s, k)
    \/ \E s \in S, pid \in Pids, q \in updates : CartUpdate(s, pid, q)
    \/ \E s \in S : CartClear(s)

CheckoutOps(S, addresses) ==
    \/ \E s \in S, a \in addresses : CheckoutStart(s, a)
    \/ \E s \in S : CheckoutCheck(s)
    \/ \E s \in S : CheckoutTotal(s)
    \/ \E s \in S : CheckoutFlush(s)
    \/ \E s \in S : CheckoutWrite(s)
    \/ \E s \in S : CheckoutCommit(s)
    \/ \E s \in S : CheckoutRespond(s)

AuthOps(S) ==
    \/ \E u \in Usernames, e \in Emails, p \in Passwords : Register(u, e, p)
    \/ \E s \in S, u \in Usernames, p \in LoginPasswords : Login(s, u, p)
    \/ \E s \in S : Logout(s)

OrderOps(S) ==
    \E s \in S, o \in 1..(MaxOrders + 1) : GetOrderDetail(s, o)

\* The application started on a database that already holds two users, with
\* both clients presenting the session cookie of an earlier login.
InitSignedIn ==
    /\ products = InitProducts
    /\ users = <<[username |-> "alice", email |-> "a@x", password |-> "pw"],
                 [username |-> "bob", email |-> "b@x", password |-> "pw"]>>
    /\ orders = <<>>
    /\ order_items = <<>>
    /\ sess = [s \in Sessions |->
                 [user_id |-> IF s = "s1" THEN 1 ELSE 2, cart |-> EmptyMap]]
    /\ co = [s \in Sessions |-> Idle]
    /\ dblock = NoSession
    /\ resp = Response("none", NoSession, 0)

\* Catalog and cart requests of one client.
NextCart == CatalogOps({"widget"}, Prices, StockInputs) \/ CartOps({"s1"}, AddQtys, UpdateQtys)
SpecCart == Init /\ [][NextCart]_vars

\* One signed-in client shopping and checking out while the catalog is
\* edited by other requests.
ShopPrices == {14}
ShopStockInputs == {-1}
ShopAddQtys == {-1, 1}
ShopUpdateQtys == {0, 1}
NextShop ==
    \/ CatalogOps({"widget"}, ShopPrices, ShopStockInputs)
    \/ CartOps({"s1"}, ShopAddQtys, ShopUpdateQtys)
    \/ CheckoutOps({"s1"}, Addresses)
SpecShop == InitSignedIn /\ [][NextShop]_vars

\* Two signed-in clients shopping and checking out concurrently.
NextConcurrent ==
    \/ CartOps(Sessions, {1}, {0})
    \/ CheckoutOps(Sessions, Addresses)
SpecConcurrent == InitSignedIn /\ [][NextConcurrent]_vars

\* Registration, login and logout of two clients that buy product 1 and
\* look at orders.
NextAuth ==
    \/ AuthOps(Sessions)
    \/ \E s \in Sessions : CartAdd(s, 1, 1)
    \/ CheckoutOps(Sessions, Addresses)
    \/ OrderOps(Sessions)
SpecAuth == Init /\ [][NextAuth]_vars

\* Catalog requests alone, with every field of an update optional.
NextCatalog ==
    \/ CatalogOps(Names, Prices, StockInputs)
    \/ \E pid \in Pids : GetProduct(pid)
SpecCatalog == Init /\ [][NextCatalog]_vars


\* One client filling and viewing its cart while the catalog is edited.
ViewStockInputs == {2}
ViewAddQtys == {1, 2}
NextView ==
    \/ CatalogOps({"widget"}, Prices, ViewStockInputs)
    \/ \E pid \in Pids, q \in ViewAddQtys : CartAdd("s1", pid, q)
    \/ \E k \in Keys : CartRemove("s1", k)
    \/ CartViewList("s1")
    \/ CartViewTotal("s1")
SpecView == Init /\ [][NextView]_vars

\* ----------------------------------------------------------------- claims
CartOf(s) == sess[s].cart
Persisted == <<products, orders, order_items>>

RECURSIVE ItemSum(_, _)
\* sum of price * quantity over the rows of items that belong to order o
ItemSum(items, o) ==
    IF items = <<>> THEN 0
    ELSE (IF Head(items).order_id = o
          THEN Head(items).price * Head(items).quantity ELSE 0)
         + ItemSum(Tail(items), o)

\* C1: in every reachable state every product's stock is >= 0.
C1_StockNeverNegative ==
    \A p \in DOMAIN products : products[p].stock >= 0

\* C2: of two concurrent checkouts of different sessions that each ask for
\* one unit of product 2, whose stock is 1, exactly one succeeds: the two
\* requests are never both past their commit.
C2_OnlyOneOfTwoSucceeds ==
    ~ \E s, t \in Sessions :
        /\ s # t
        /\ co[s].pc = "respond" /\ co[t].pc = "respond"
        /\ CartOf(s) = ("2" :> 1) /\ CartOf(t) = ("2" :> 1)

\* C3: the write phase of checkout is atomic.  A step of the write phase
\* (from the INSERT of the order to the commit) leaves the persisted tables
\* as they are, also when it fails and ends the request with status 500;
\* the commit adds the order, one order item per cart entry, and writes the
\* stock of every product of the cart whose quantity is not 0.
C3_WritePhaseAtomic ==
    [][\A s \in Sessions :
        /\ (co[s].pc \in {"flush", "write"} /\ co'[s] # co[s])
              => /\ Persisted' = Persisted
                 /\ co'[s].pc = "idle" => resp' = Response("checkout", s, 500)
        /\ (co[s].pc = "commit" /\ co'[s] # co[s])
              => /\ Len(orders') = Len(orders) + 1
                 /\ co[s].oid = Len(orders')
                 /\ Len(order_items') = Len(order_items) + Len(Order(s))
                 /\ \A n \in 1..Len(Order(s)) :
                       LET row == order_items'[Len(order_items) + n]
                           k == Order(s)[n]
                       IN /\ row.order_id = co[s].oid
                          /\ row.product_id = IntOf(k)
                          /\ row.quantity = CartOf(s)[k]
                 /\ \A k \in DOMAIN CartOf(s) :
                       CartOf(s)[k] # 0 =>
                          /\ IntOf(k) \in DOMAIN products'
                          /\ IntOf(k) \in co[s].dirty
                          /\ products'[IntOf(k)].stock = co[s].cache[IntOf(k)].stock
                 /\ \A p \in DOMAIN products :
                       StrOf(p) \notin DOMAIN CartOf(s) => products'[p] = products[p]
    ]_vars

\* C3 witness: a checkout of a two-entry cart failed in its write loop on
\* the second entry, whose product is gone; nothing was persisted.
C3_Witness ==
    /\ resp = Response("checkout", "s1", 500)
    /\ DOMAIN CartOf("s1") = {"1", "2"}
    /\ CartOf("s1")["1"] # 0
    /\ 1 \in DOMAIN products /\ 2 \notin DOMAIN products
    /\ products[1].stock = InitProducts[1].stock
    /\ orders = <<>> /\ order_items = <<>>

\* C4: for every persisted order, total_amount equals the sum over its
\* order items of price * quantity.
C4_TotalEqualsItemSum ==
    \A o \in DOMAIN orders : orders[o].total_amount = ItemSum(order_items, o)

\* C5: a successful checkout creates one completed order owned by the
\* session's user, one order item per cart entry with the entry's product,
\* quantity and the product's current price, decrements the stock of every
\* purchased product by the purchased quantity and leaves other stock alone.
C5_CheckoutEffect ==
    [][\A s \in Sessions :
        (co[s].pc = "commit" /\ co'[s] # co[s]) =>
           /\ Len(orders') = Len(orders) + 1
           /\ orders'[Len(orders')].status = "completed"
           /\ orders'[Len(orders')].user_id = sess[s].user_id
           /\ Len(order_items') = Len(order_items) + Len(Order(s))
           /\ \A n \in 1..Len(Order(s)) :
                 LET row == order_items'[Len(order_items) + n]
                     k == Order(s)[n]
                 IN /\ row.product_id = IntOf(k)
                    /\ row.quantity = CartOf(s)[k]
                    /\ IntOf(k) \in DOMAIN products
                          => row.price = products[IntOf(k)].price
           /\ \A p \in DOMAIN products :
                 /\ p \in DOMAIN products'
                 /\ products'[p].stock = products[p].stock -
                       (IF StrOf(p) \in DOMAIN CartOf(s) THEN CartOf(s)[StrOf(p)] ELSE 0)
    ]_vars

\* C6: add(session, pid, q) with q > stock(pid) for an existing product
\* fails with status 400 and leaves the session's cart as it was.
C6_AddBeyondStockRejected ==
    [][\A s \in Sessions, pid \in Pids, q \in AddQtys :
        (/\ CartAdd(s, pid, q)
         /\ pid \in DOMAIN products
         /\ q > products[pid].stock)
           => /\ resp' = Response("cart_add", s, 400)
              /\ sess' = sess
    ]_vars

\* C6 witness: an add was refused with 400 while the cart held an entry.
C6_Witness ==
    /\ resp = Response("cart_add", "s1", 400)
    /\ DOMAIN CartOf("s1") # {}

\* C7: under an authenticated session getDetail answers 404 when no order
\* has the id, 403 when the order's owner is not the session's user, and
\* returns the order (200) only to its owner.
C7_OrderDetailOwnerOnly ==
    [][\A s \in Sessions, o \in 1..(MaxOrders + 1) :
        (GetOrderDetail(s, o) /\ sess[s].user_id # NoUser) =>
           /\ o \notin DOMAIN orders => resp'.status = 404
           /\ (o \in DOMAIN orders /\ orders[o].user_id # sess[s].user_id)
                 => resp'.status = 403
           /\ resp'.status = 200
                 => (o \in DOMAIN orders /\ orders[o].user_id = sess[s].user_id)
    ]_vars

\* C7 witness: a signed-in user asked for another user's order, got 403.
C7_Witness ==
    /\ resp.op = "order_detail" /\ resp.status = 403
    /\ resp.sid \in Sessions
    /\ sess[resp.sid].user_id # NoUser
    /\ \E o \in DOMAIN orders :
          /\ orders[o].user_id # NoUser
          /\ orders[o].user_id # sess[resp.sid].user_id

\* C8: a checkout request of a session without user_id is answered with
\* the redirect to the login page and changes neither the tables nor the
\* session; a request in flight belongs to a signed-in session, and the
\* order a commit adds is owned by that session's user.
C8_CheckoutNeedsLogin ==
    [][\A s \in Sessions :
        /\ \A a \in Addresses :
              (CheckoutStart(s, a) /\ sess[s].user_id = NoUser)
                 => /\ resp' = Response("checkout", s, 302)
                    /\ UNCHANGED <<db, sess, co>>
        /\ co'[s].pc # "idle" => sess'[s].user_id # NoUser
        /\ (co[s].pc = "commit" /\ co'[s] # co[s])
              => /\ orders'[Len(orders')].user_id = sess[s].user_id
                 /\ orders'[Len(orders')].user_id # NoUser
    ]_vars

\* C8 witness: an anonymous session with a filled cart was refused checkout.
C8_Witness ==
    /\ resp.op = "checkout" /\ resp.status = 302
    /\ resp.sid \in Sessions
    /\ sess[resp.sid].user_id = NoUser
    /\ DOMAIN CartOf(resp.sid) # {}
    /\ orders = <<>>

\* C9: after a successful add or update every entry of the
\* session's cart has a quantity that does not exceed its product's stock.
C9_CartWithinStock ==
    [][\A s \in Sessions :
        (/\ \E pid \in Pids :
               \/ \E q \in AddQtys : CartAdd(s, pid, q)
               \/ \E q \in UpdateQtys : CartUpdate(s, pid, q)
         /\ resp'.status = 200)
           => \A k \in DOMAIN sess'[s].cart :
                 IntOf(k) \in DOMAIN products'
                    => sess'[s].cart[k] <= products'[IntOf(k)].stock
    ]_vars

\* C10: every entry of every session's cart has a quantity >= 1.
C10_CartQuantityPositive ==
    \A s \in Sessions : \A k \in DOMAIN CartOf(s) : CartOf(s)[k] >= 1

\* the entries of a cart other than k are the same in cart and cart2
SameElsewhere(cart, cart2, k) ==
    \A j \in (DOMAIN cart \cup DOMAIN cart2) \ {k} :
        /\ j \in DOMAIN cart /\ j \in DOMAIN cart2
        /\ cart2[j] = cart[j]

\* C11: update(session, pid, q) answers 404 and keeps the cart when pid is
\* not in the cart; removes the entry when q <= 0; answers 400 and keeps
\* the cart when q > 0 exceeds the stock of the product; otherwise sets
\* cart[pid] to exactly q.  Every other entry is unchanged in every case.
C11_CartUpdateCases ==
    [][\A s \in Sessions, pid \in Pids, q \in UpdateQtys :
        CartUpdate(s, pid, q) =>
           LET k == StrOf(pid)
               cart == sess[s].cart
               cart2 == sess'[s].cart
               exceeds == IF pid \in DOMAIN products
                          THEN q > products[pid].stock ELSE FALSE
           IN /\ k \notin DOMAIN cart
                    => (resp' = Response("cart_update", s, 404) /\ cart2 = cart)
              /\ (k \in DOMAIN cart /\ q <= 0)
                    => (resp'.status = 200 /\ k \notin DOMAIN cart2)
              /\ (k \in DOMAIN cart /\ q > 0 /\ exceeds)
                    => (resp' = Response("cart_update", s, 400) /\ cart2 = cart)
              /\ (k \in DOMAIN cart /\ q > 0 /\ ~exceeds)
                    => (resp'.status = 200 /\ k \in DOMAIN cart2 /\ cart2[k] = q)
              /\ SameElsewhere(cart, cart2, k)
    ]_vars

\* C11 (amended): as C11 for a product that exists; when pid is in the
\* cart, q > 0 and the product no longer exists, update answers 404 and
\* keeps the cart.
C11_CartUpdateCasesExisting ==
    [][\A s \in Sessions, pid \in Pids, q \in UpdateQtys :
        CartUpdate(s, pid, q) =>
           LET k == StrOf(pid)
               cart == sess[s].cart
               cart2 == sess'[s].cart
               there == pid \in DOMAIN products
               exceeds == IF there THEN q > products[pid].stock ELSE FALSE
           IN /\ k \notin DOMAIN cart
                    => (resp' = Response("cart_update", s, 404) /\ cart2 = cart)
              /\ (k \in DOMAIN cart /\ q <= 0)
                    => (resp'.status = 200 /\ k \notin DOMAIN cart2)
              /\ (k \in DOMAIN cart /\ q > 0 /\ ~there)
                    => (resp' = Response("cart_update", s, 404) /\ cart2 = cart)
              /\ (k \in DOMAIN cart /\ q > 0 /\ exceeds)
                    => (resp' = Response("cart_update", s, 400) /\ cart2 = cart)
              /\ (k \in DOMAIN cart /\ q > 0 /\ there /\ ~exceeds)
                    => (resp'.status = 200 /\ k \in DOMAIN cart2 /\ cart2[k] = q)
              /\ SameElsewhere(cart, cart2, k)
    ]_vars

\* C11 witness: an update of an entry whose product was deleted was
\* answered 404; both keys are in the cart, so the 404 is not for a key
\* that is absent from it.
C11_Witness ==
    /\ resp = Response("cart_update", "s1", 404)
    /\ DOMAIN CartOf("s1") = {"1", "2"}
    /\ 1 \in DOMAIN products /\ 2 \notin DOMAIN products

\* C12: remove(session, pid) always succeeds, changes nothing when pid is
\* absent, and leaves a cart without pid whose other entries are unchanged,
\* so that a second remove gives the same cart as the first.
C12_RemoveIdempotent ==
    [][\A s \in Sessions, k \in Keys :
        CartRemove(s, k) =>
           LET cart == sess[s].cart
               cart2 == sess'[s].cart
           IN /\ resp' = Response("cart_remove", s, 200)
              /\ k \notin DOMAIN cart => sess' = sess
              /\ k \notin DOMAIN cart2
              /\ SameElsewhere(cart, cart2, k)
              /\ MapDel(cart2, k) = cart2
    ]_vars

\* C12 witness: a remove was answered and the cart holds only the other
\* product.
C12_Witness ==
    /\ resp = Response("cart_remove", "s1", 200)
    /\ DOMAIN CartOf("s1") = {"2"}

\* C13: update(p, {price: x}) of an existing product makes get(p) return
\* price x with every other field as before; in any update a field that is
\* not supplied keeps its value, and no other product changes.
C13_UpdateKeepsOtherFields ==
    [][\A pid \in Pids :
        /\ \A n \in Opt(Names), x \in Opt(Prices), st \in Opt(StockInputs) :
              (UpdateProduct(pid, n, x, st) /\ pid \in DOMAIN products) =>
                 /\ resp'.status = 200
                 /\ DOMAIN products' = DOMAIN products
                 /\ products'[pid].stock = Get(st, products[pid].stock)
                 /\ products'[pid].price = Get(x, products[pid].price)
                 /\ products'[pid].name = Get(n, products[pid].name)
                 /\ \A p \in DOMAIN products \ {pid} : products'[p] = products[p]
        /\ (GetProduct(pid) /\ pid \in DOMAIN products) =>
              /\ resp'.status = 200
              /\ resp'.body = products[pid]
              /\ products' = products
    ]_vars

\* C13 witness: product 1 was updated and has a new price and name with
\* the stock it started with.
C13_Witness ==
    /\ resp = Response("update_product", NoSession, 200)
    /\ 1 \in DOMAIN products
    /\ products[1] = [name |-> "gadget", price |-> 14,
                      stock |-> InitProducts[1].stock]

\* C14: deleting an existing product succeeds, also when order items
\* reference it; afterwards the id is not found, and the orders and order
\* items are what they were.
C14_DeleteAlwaysSucceeds ==
    [][\A pid \in Pids :
        (DeleteProduct(pid) /\ pid \in DOMAIN products) =>
           /\ resp' = Response("delete_product", NoSession, 200)
           /\ pid \notin DOMAIN products'
           /\ orders' = orders
           /\ order_items' = order_items
    ]_vars

\* the product of cart key k exists with stock >= quantity
InStock(k, quantity) ==
    IF IntOf(k) \in DOMAIN products
    THEN products[IntOf(k)].stock >= quantity ELSE FALSE

\* C15: a checkout with an empty cart, an empty shipping address, or a cart
\* entry whose product is missing or has less stock than the entry's
\* quantity is answered 400, adds no order and no order item, changes no
\* stock and keeps the cart; an entry passes the check only if its product
\* exists with stock >= its quantity when it is checked.
C15_FailedValidationChangesNothing ==
    [][\A s \in Sessions :
        /\ \A a \in Addresses :
              (CheckoutStart(s, a) /\ LoggedIn(s)
                  /\ (DOMAIN CartOf(s) = {} \/ a = ""))
                 => /\ resp' = Response("checkout", s, 400)
                    /\ UNCHANGED <<db, sess, co>>
        /\ (co[s].pc = "check" /\ co'[s] # co[s])
              => /\ UNCHANGED <<db, sess>>
                 /\ IF InStock(KeyAt(s), CartOf(s)[KeyAt(s)])
                    THEN co'[s].pc \in {"check", "total"} /\ resp' = resp
                    ELSE co'[s].pc = "idle"
                         /\ resp' = Response("checkout", s, 400)
    ]_vars

\* C15 witness: a checkout was refused with 400 on a cart whose only entry
\* asks for more than the stock of its product; nothing was persisted.
C15_Witness ==
    /\ resp = Response("checkout", "s1", 400)
    /\ co["s1"].pc = "idle"
    /\ DOMAIN CartOf("s1") = {"1"}
    /\ ~InStock("1", CartOf("s1")["1"])
    /\ orders = <<>> /\ order_items = <<>>

\* C16: a successful add(session, pid, q) sets cart[pid] to the previous
\* quantity + q, or to q for a new key, and changes no other entry; add for
\* a product id that does not exist answers 404 and keeps the cart; the add
\* succeeds whenever q alone is within the stock, whatever the cart holds.
C16_AddSumsQuantities ==
    [][\A s \in Sessions, pid \in Pids, q \in AddQtys :
        CartAdd(s, pid, q) =>
           LET k == StrOf(pid)
               cart == sess[s].cart
               cart2 == sess'[s].cart
           IN /\ pid \notin DOMAIN products
                    => (resp' = Response("cart_add", s, 404) /\ cart2 = cart)
              /\ InStock(k, q)
                    => /\ resp' = Response("cart_add", s, 200)
                       /\ k \in DOMAIN cart2
                       /\ cart2[k] = IF k \in DOMAIN cart THEN cart[k] + q ELSE q
              /\ resp'.status = 200 => InStock(k, q)
              /\ SameElsewhere(cart, cart2, k)
    ]_vars

\* C16 witness: an add succeeded and the cart holds two units of a product
\* whose stock is one.
C16_Witness ==
    /\ resp = Response("cart_add", "s1", 200)
    /\ DOMAIN CartOf("s1") = {"1"}
    /\ CartOf("s1")["1"] = 2
    /\ 1 \in DOMAIN products
    /\ products[1].stock = 1

\* C17: the response of a committed checkout is 201 and leaves the
\* session's cart empty and the cart of every other session as it was; a
\* checkout on an empty cart is answered 400 and adds no order.
C17_CartEmptyAfterCheckout ==
    [][\A s \in Sessions :
        /\ (co[s].pc = "respond" /\ co'[s] # co[s])
              => /\ resp' = Response("checkout", s, 201)
                 /\ sess'[s].cart = EmptyMap
                 /\ \A t \in Sessions \ {s} : sess'[t] = sess[t]
        /\ \A a \in Addresses :
              (CheckoutStart(s, a) /\ LoggedIn(s) /\ DOMAIN CartOf(s) = {})
                 => /\ resp' = Response("checkout", s, 400)
                    /\ UNCHANGED <<db, sess, co>>
    ]_vars

\* C17 witness: the checkout of s1 was answered 201; its cart is empty, its
\* order is stored, and the cart of s2 still holds an entry.
C17_Witness ==
    /\ resp = Response("checkout", "s1", 201)
    /\ CartOf("s1") = EmptyMap
    /\ DOMAIN CartOf("s2") # {}
    /\ Len(orders) = 1
    /\ orders[1].user_id = sess["s1"].user_id

\* C18: every persisted order item has a quantity >= 1.
C18_ItemQuantityPositive ==
    \A n \in DOMAIN order_items : order_items[n].quantity >= 1

\* C19: orders and order items are added only by the commit of a checkout,
\* and no step changes an order or an order item that exists: an item keeps
\* the price of its purchase when the price of its product is changed.
C19_OrdersImmutable ==
    [][/\ \A o \in DOMAIN orders :
             o \in DOMAIN orders' /\ orders'[o] = orders[o]
       /\ \A n \in DOMAIN order_items :
             n \in DOMAIN order_items' /\ order_items'[n] = order_items[n]
       /\ (orders' # orders \/ order_items' # order_items)
             => \E s \in Sessions :
                   co[s].pc = "commit" /\ co'[s].pc = "respond"
    ]_vars

\* C19 witness: the price of a product was changed after an order item of
\* it was stored; the item still carries the price of its purchase.
C19_Witness ==
    /\ resp = Response("update_product", NoSession, 200)
    /\ \E n \in DOMAIN order_items :
          /\ order_items[n].price = InitProducts[1].price
          /\ order_items[n].product_id \in DOMAIN products
          /\ products[order_items[n].product_id].price
                # InitProducts[1].price

\* sum of price * quantity over the entries a cart view lists
ListedSum(items) ==
    SumSeq([n \in 1..Len(items) |-> items[n].price * items[n].quantity])

\* the listing names exactly the cart entries whose product exists, each
\* with its quantity and the current price of its product
ListsExisting(items, cart) ==
    /\ {items[n].product_id : n \in 1..Len(items)}
          = {k \in DOMAIN cart : IntOf(k) \in DOMAIN products}
    /\ \A n \in 1..Len(items) :
          /\ items[n].quantity = cart[items[n].product_id]
          /\ items[n].price = products[IntOf(items[n].product_id)].price

\* the products of the cart are what they were when the view listed them
AsListed(s) ==
    \A k \in DOMAIN CartOf(s) :
        Fresh(IntOf(k)) = IF IntOf(k) \in DOMAIN co[s].cache
                          THEN <<co[s].cache[IntOf(k)]>> ELSE <<>>

\* C20: the response of a cart view lists exactly the cart entries whose
\* product exists, its total is the sum of current price * quantity over
\* exactly those entries, and the stored cart is the same before and after.
C20_ViewTotalIsSum ==
    [][\A s \in Sessions :
        /\ (co'[s] # co[s] /\ (co[s].pc = "view" \/ co'[s].pc = "view"))
              => UNCHANGED <<db, sess>>
        /\ (co[s].pc = "view" /\ co'[s].pc = "idle")
              => /\ ListsExisting(resp'.body.items, CartOf(s))
                 /\ resp'.body.total = ListedSum(resp'.body.items)
    ]_vars

\* C20 (amended): a cart view changes neither the stored cart nor the
\* database; it lists exactly the cart entries whose product exists when
\* they are listed; and when the products of the cart are still as listed
\* when the total is computed, the total is the sum of price * quantity
\* over exactly those entries rounded to 2 decimal places.
C20_ViewTotalIsRoundedSum ==
    [][\A s \in Sessions :
        /\ (co'[s] # co[s] /\ (co[s].pc = "view" \/ co'[s].pc = "view"))
              => UNCHANGED <<db, sess>>
        /\ (co[s].pc = "idle" /\ co'[s].pc = "view")
              => ListsExisting(co'[s].items, CartOf(s))
        /\ (co[s].pc = "view" /\ co'[s].pc = "idle")
              => /\ resp'.op = "cart_view" /\ resp'.status = 200
                 /\ resp'.body.items = co[s].items
                 /\ AsListed(s)
                       => /\ ListsExisting(resp'.body.items, CartOf(s))
                          /\ resp'.body.total
                                = Round2(ListedSum(resp'.body.items))
    ]_vars

\* C20 witness: a view of a cart of two entries, one of a deleted product,
\* listed the other entry alone and rounded its total.
C20_Witness ==
    /\ resp.op = "cart_view" /\ resp.sid = "s1" /\ resp.status = 200
    /\ DOMAIN CartOf("s1") = {"1", "2"}
    /\ 1 \in DOMAIN products /\ 2 \notin DOMAIN products
    /\ Len(resp.body.items) = 1
    /\ resp.body.items[1].product_id = "1"
    /\ resp.body.items[1].price = 14
    /\ resp.body.items[1].quantity = 1
    /\ resp.body.total = 10

RECURSIVE SoldQuantity(_, _)
\* sum of the quantities of the rows of items that reference product p
SoldQuantity(items, p) ==
    IF items = <<>> THEN 0
    ELSE (IF Head(items).product_id = p THEN Head(items).quantity ELSE 0)
         + SoldQuantity(Tail(items), p)

\* C21: without catalog stock edits and product deletions, the stock of
\* every product plus the quantities of all persisted order items that
\* reference it equals the stock the product started with.
C21_StockConservation ==
    \A p \in DOMAIN products :
        products[p].stock + SoldQuantity(order_items, p) = InitProducts[p].stock
====
